---------------------------- MODULE Spec2Model ----------------------------
(***************************************************************************)
(* Model of the dubbing pipeline of az_dubbing: speaker-profile            *)
(* normalisation and segment matching (ttsengine.py), duration-matched     *)
(* synthesis (process_segment, generate_speech), the per-cue loop of       *)
(* process_movie and the stage sequence of scripts/dub_video.py, together  *)
(* with validate_audio_sync and the combined track of merge_audio_segments *)
(* (video_processor.py), the chunk loop of process_audio and the timecode  *)
(* formatter (transcriber.py), and the subtitle reader read_srt.           *)
(*                                                                         *)
(* Units.  Times and durations are integer milliseconds.  Pitch is in Hz.  *)
(* Energy is in thousandths (1.0 = 1000), speech_rate and                  *)
(* gender_confidence are in hundredths (1.0 = 100).  Python dicts are      *)
(* functions whose DOMAIN is the set of keys that are present.             *)
(***************************************************************************)
EXTENDS Integers, Sequences, FiniteSets, TLC

VARIABLES
    nPc, nSpeakerIn, nCue, nMeta, nOut,
    sPc, sText, sTarget, sBackend, sOut,
    gPc, gText, gSpeaker, gLang, gWritable, gCalls, gFile, gOut,
    pc, sessions, session_dir, inputsReadable, subtitles, metadata, cur,
    audio_segments, successful_count, synthLog, cueResult, files, movieOut,
    vpLog, overlaid,
    vPc, vVideo, vSegments, vOut,
    aPc, aAudioMs, aDetect, chunks, aIdx, current_time, processed_segments,
    tPc, tIn, tCode, tOut,
    mPc, mVideoMs, mSegments, mTrack, mPermTrack, mOut,
    rPc, rContent, rSubs, rWarned

normVars == <<nPc, nSpeakerIn, nCue, nMeta, nOut>>
segVars  == <<sPc, sText, sTarget, sBackend, sOut>>
genVars  == <<gPc, gText, gSpeaker, gLang, gWritable, gCalls, gFile, gOut>>
movieVars == <<inputsReadable, subtitles, metadata, cur, audio_segments,
               successful_count, synthLog, cueResult, files, movieOut>>
mainVars == <<pc, sessions, session_dir, vpLog, overlaid>>
pipeVars == <<movieVars, mainVars>>
syncVars == <<vPc, vVideo, vSegments, vOut>>
audioVars == <<aPc, aAudioMs, aDetect, chunks, aIdx, current_time,
               processed_segments>>
timeVars == <<tPc, tIn, tCode, tOut>>
mergeVars == <<mPc, mVideoMs, mSegments, mTrack, mPermTrack, mOut>>
srtVars  == <<rPc, rContent, rSubs, rWarned>>
restVars == <<mergeVars, srtVars>>
auxVars  == <<syncVars, audioVars, timeVars, restVars>>
vars     == <<normVars, segVars, genVars, pipeVars, auxVars>>

-----------------------------------------------------------------------------
(* Python helpers                                                          *)

Min(a, b) == IF b < a THEN b ELSE a
Max(a, b) == IF b > a THEN b ELSE a
Abs(a) == IF a < 0 THEN -a ELSE a

EmptyDict == [k \in {} |-> 0]

\* dict.get(key, default)
Get(d, k, default) == IF k \in DOMAIN d THEN d[k] ELSE default

-----------------------------------------------------------------------------
(* setup_config: the default configuration                                 *)

PitchMin == 50
PitchMax == 300
MalePitch == 120
FemalePitch == 210
EnergyMin == 500
EnergyMax == 2000
EnergyLow == 10
EnergyHigh == 10000
EnergyDefault == 1000
RateMin == 80
RateMax == 150
RateHigh == 10000
RateDefault == 100
ConfidenceThreshold == 70
FallbackConfidence == 80
FullConfidence == 100
FemalePitchCut == 165

-----------------------------------------------------------------------------
(* _normalize_speaker_params                                               *)

\* NormalizePitch that clamps a pitch above 300 Hz instead of resetting it
NormalizePitchClampOnly(speaker_info) ==
    Max(PitchMin, Min(PitchMax, Get(speaker_info, "pitch", 0)))

NormalizePitch(speaker_info) ==
    LET pitch == Get(speaker_info, "pitch", 0)
        repaired == IF pitch > PitchMax
                    THEN (IF Get(speaker_info, "gender", "none") = "female"
                          THEN FemalePitch ELSE MalePitch)
                    ELSE pitch
    IN  Max(PitchMin, Min(PitchMax, repaired))

NormalizeEnergy(speaker_info) ==
    LET energy == Get(speaker_info, "energy", EnergyDefault)
        repaired == IF energy < EnergyLow \/ energy > EnergyHigh
                    THEN EnergyDefault ELSE energy
    IN  Max(EnergyMin, Min(EnergyMax, repaired))

\* NormalizeRate without the final clamp
NormalizeRateUnclamped(speaker_info) ==
    LET speech_rate == Get(speaker_info, "speech_rate", RateDefault)
    IN  IF speech_rate > RateHigh THEN RateDefault ELSE speech_rate

NormalizeRate(speaker_info) ==
    LET speech_rate == Get(speaker_info, "speech_rate", RateDefault)
        repaired == IF speech_rate > RateHigh THEN RateDefault ELSE speech_rate
    IN  Max(RateMin, Min(RateMax, repaired))

NormalizeSpeakerParams(speaker_info) ==
    [k \in DOMAIN speaker_info \cup {"pitch", "energy", "speech_rate"} |->
        CASE k = "pitch"       -> NormalizePitch(speaker_info)
          [] k = "energy"      -> NormalizeEnergy(speaker_info)
          [] k = "speech_rate" -> NormalizeRate(speaker_info)
          [] OTHER             -> speaker_info[k]]

-----------------------------------------------------------------------------
(* _find_matching_segment                                                  *)

\* NeutralProfile with the female defaults
NeutralProfileFemale ==
    [gender |-> "female", gender_confidence |-> FullConfidence,
     pitch |-> FemalePitch, energy |-> EnergyDefault, speech_rate |-> RateDefault]

NeutralProfile ==
    [gender |-> "male", gender_confidence |-> FullConfidence,
     pitch |-> MalePitch, energy |-> EnergyDefault, speech_rate |-> RateDefault]

NeutralMatch == [segment_id |-> 0, speaker |-> NeutralProfile]

\* ScanStep in which a later segment at the same distance replaces the
\* earlier one
ScanStepLastWins(subtitle, segs, i, acc) ==
    LET segment == segs[i] IN
    IF acc.raised \/ "segment_id" \notin DOMAIN segment THEN acc
    ELSE IF ~ ({"start_time", "end_time"} \subseteq DOMAIN segment)
    THEN [acc EXCEPT !.raised = TRUE]
    ELSE LET total_diff == Abs(segment.start_time - subtitle.start_time)
                           + Abs(segment.end_time - subtitle.end_time)
         IN  IF acc.closest = 0 \/ total_diff <= acc.min_diff
             THEN [acc EXCEPT !.closest = i, !.min_diff = total_diff]
             ELSE acc

\* One iteration of the scan loop (lines 127-135).  acc.closest = 0 stands
\* for closest_segment = None with min_diff = inf.
ScanStep(subtitle, segs, i, acc) ==
    LET segment == segs[i] IN
    IF acc.raised \/ "segment_id" \notin DOMAIN segment THEN acc
    ELSE IF ~ ({"start_time", "end_time"} \subseteq DOMAIN segment)
    THEN [acc EXCEPT !.raised = TRUE]
    ELSE LET start_diff == Abs(segment.start_time - subtitle.start_time)
             end_diff == Abs(segment.end_time - subtitle.end_time)
             total_diff == start_diff + end_diff
         IN  IF acc.closest = 0 \/ total_diff < acc.min_diff
             THEN [acc EXCEPT !.closest = i, !.min_diff = total_diff]
             ELSE acc

RECURSIVE ScanSegments(_, _, _, _)
ScanSegments(subtitle, segs, i, acc) ==
    IF i > Len(segs) THEN acc
    ELSE ScanSegments(subtitle, segs, i + 1, ScanStep(subtitle, segs, i, acc))

\* Lines 140-154: keep the detected gender or re-derive it from pitch.
MatchedProfile(speaker_info) ==
    LET confidence == Get(speaker_info, "gender_confidence", 0) IN
    IF confidence > ConfidenceThreshold
    THEN NormalizeSpeakerParams(speaker_info)
    ELSE LET pitch == Get(speaker_info, "pitch", 0)
             gender == IF pitch > FemalePitchCut THEN "female" ELSE "male"
         IN  NormalizeSpeakerParams(
                 [gender |-> gender,
                  gender_confidence |-> FallbackConfidence,
                  pitch |-> pitch,
                  energy |-> Get(speaker_info, "energy", EnergyDefault),
                  speech_rate |-> Get(speaker_info, "speech_rate", RateDefault)])

\* metadata_segments = [present, segs]: present = FALSE is the value None,
\* whose iteration raises inside the try block.
FindMatchingSegment(subtitle, metadata_segments) ==
    IF ~ metadata_segments.present THEN NeutralMatch
    ELSE LET acc == ScanSegments(subtitle, metadata_segments.segs, 1,
                        [closest |-> 0, min_diff |-> 0, raised |-> FALSE])
         IN  IF acc.raised \/ acc.closest = 0 THEN NeutralMatch
             ELSE LET closest_segment == metadata_segments.segs[acc.closest] IN
                  IF "speaker" \notin DOMAIN closest_segment THEN NeutralMatch
                  ELSE [segment_id |-> closest_segment.segment_id,
                        speaker |-> MatchedProfile(closest_segment.speaker),
                        start_time |-> closest_segment.start_time,
                        end_time |-> closest_segment.end_time]

-----------------------------------------------------------------------------
(* Inputs of the normaliser and the matcher                                *)

LargeValue == 1000000
MaxSegments == 2

Field(k, values) == {EmptyDict} \cup {(k :> v) : v \in values}

PitchInputs == {-10, 0, 49, 50, 165, 166, 300, 301, LargeValue}
EnergyInputs == {-1000, 0, 9, 10, 499, 500, 1000, 2000, 2001, 10000, 10001, LargeValue}
RateInputs == {-100, 0, 79, 80, 100, 150, 151, 10000, 10001, LargeValue}
ConfidenceInputs == {0, 69, 70, 71, 100}

\* Speaker attributes as the speaker detector or a metadata file may give
\* them: every field present or missing, in or out of range.
SpeakerInputs ==
    {g @@ c @@ p @@ e @@ r :
        g \in Field("gender", {"male", "female", "unknown"}),
        c \in Field("gender_confidence", ConfidenceInputs),
        p \in Field("pitch", PitchInputs),
        e \in Field("energy", EnergyInputs),
        r \in Field("speech_rate", RateInputs)}

\* The speakers carried by the segments of a session metadata file.
MetaSpeakers ==
    { [gender |-> "female", gender_confidence |-> 90, pitch |-> 220,
       energy |-> 1200, speech_rate |-> 110],
      [gender |-> "male", gender_confidence |-> 50, pitch |-> 200,
       energy |-> 800, speech_rate |-> 90],
      [gender |-> "female", gender_confidence |-> 95, pitch |-> LargeValue,
       energy |-> LargeValue, speech_rate |-> LargeValue],
      EmptyDict,
      [gender |-> "unknown", gender_confidence |-> 70, pitch |-> -10,
       energy |-> 0, speech_rate |-> -100],
      [gender |-> "male", gender_confidence |-> 71, pitch |-> 301,
       energy |-> 2001, speech_rate |-> 151] }

MetaWindows == << <<0, 5000>>, <<9500, 13200>>, <<9500, 13000>>, <<10000, 13500>> >>

\* A transcript segment of the metadata file; process_audio_segment writes
\* segment_id, start_time, end_time and speaker, older files lack some.
MetaSegments ==
    {[segment_id |-> w - 1, start_time |-> MetaWindows[w][1],
      end_time |-> MetaWindows[w][2], speaker |-> sp] :
        w \in DOMAIN MetaWindows, sp \in MetaSpeakers}
    \cup {[segment_id |-> w - 1, start_time |-> MetaWindows[w][1],
           end_time |-> MetaWindows[w][2]] : w \in DOMAIN MetaWindows}
    \cup {[start_time |-> 10000, end_time |-> 13000, speaker |-> NeutralProfile],
          [segment_id |-> 9, speaker |-> NeutralProfile]}

SeqsUpTo(S, n) == UNION {[1..m -> S] : m \in 0..n}

MetadataInputs ==
    {[present |-> FALSE, segs |-> <<>>]}
    \cup {[present |-> TRUE, segs |-> s] : s \in SeqsUpTo(MetaSegments, MaxSegments)}

CueWindows == {[start_time |-> 10000, end_time |-> 13000],
               [start_time |-> 0, end_time |-> 5000]}

IdleCue == [start_time |-> 0, end_time |-> 0]
IdleMeta == [present |-> FALSE, segs |-> <<>>]

-----------------------------------------------------------------------------
(* Specification of the normaliser and the matcher as called functions     *)

IdleSeg ==
    /\ sPc = "idle" /\ sText = <<>> /\ sTarget = 0
    /\ sBackend = EmptyDict /\ sOut = EmptyDict

IdlePipe ==
    /\ pc = "idle" /\ sessions = {} /\ session_dir = "none"
    /\ inputsReadable = TRUE /\ subtitles = <<>> /\ metadata = IdleMeta
    /\ cur = 0 /\ audio_segments = <<>> /\ successful_count = 0
    /\ synthLog = <<>> /\ cueResult = <<>> /\ files = EmptyDict
    /\ movieOut = "none" /\ vpLog = <<>> /\ overlaid = <<>>

IdleSync == vPc = "idle" /\ vVideo = 0 /\ vSegments = <<>> /\ vOut = FALSE

IdleAudio ==
    /\ aPc = "idle" /\ aAudioMs = 0 /\ aDetect = EmptyDict /\ chunks = <<>>
    /\ aIdx = 0 /\ current_time = 0 /\ processed_segments = <<>>

IdleTime == tPc = "idle" /\ tIn = 0 /\ tCode = EmptyDict /\ tOut = 0

IdleMerge ==
    /\ mPc = "idle" /\ mVideoMs = 0 /\ mSegments = <<>> /\ mTrack = <<>>
    /\ mPermTrack = <<>> /\ mOut = "none"

IdleSrt == rPc = "idle" /\ rContent = <<>> /\ rSubs = <<>> /\ rWarned = <<>>

IdleRest == IdleMerge /\ IdleSrt

IdleAux == IdleSync /\ IdleAudio /\ IdleTime /\ IdleRest

IdleGen ==
    /\ gPc = "idle" /\ gText = <<>> /\ gSpeaker = EmptyDict /\ gLang = "az"
    /\ gWritable = TRUE /\ gCalls = <<>> /\ gFile = EmptyDict /\ gOut = "none"

InitNorm ==
    /\ \/ /\ nPc = "call_normalize"
          /\ nSpeakerIn \in SpeakerInputs
          /\ nCue = IdleCue
          /\ nMeta = IdleMeta
       \/ /\ nPc = "call_match"
          /\ nSpeakerIn = EmptyDict
          /\ nCue \in CueWindows
          /\ nMeta \in MetadataInputs
    /\ nOut = EmptyDict
    /\ IdleSeg /\ IdleGen /\ IdlePipe /\ IdleAux

NormalizeCall ==
    /\ nPc = "call_normalize"
    /\ nOut' = NormalizeSpeakerParams(nSpeakerIn)
    /\ nPc' = "normalized"
    /\ UNCHANGED <<nSpeakerIn, nCue, nMeta, segVars, genVars, pipeVars, auxVars>>

FindMatchCall ==
    /\ nPc = "call_match"
    /\ nOut' = FindMatchingSegment(nCue, nMeta)
    /\ nPc' = "matched"
    /\ UNCHANGED <<nSpeakerIn, nCue, nMeta, segVars, genVars, pipeVars, auxVars>>

NextNorm == NormalizeCall \/ FindMatchCall

SpecNorm == InitNorm /\ [][NextNorm]_vars

\* C1: every profile returned by _normalize_speaker_params, and every
\* speaker profile returned by _find_matching_segment (matched, re-derived or
\* neutral), has 50 <= pitch <= 300, 0.5 <= energy <= 2.0 and
\* 0.8 <= speech_rate <= 1.5.
ProfileInRange(p) ==
    /\ 50 <= p.pitch /\ p.pitch <= 300
    /\ 500 <= p.energy /\ p.energy <= 2000
    /\ 80 <= p.speech_rate /\ p.speech_rate <= 150

C1_ProfilesInRange ==
    /\ nPc = "normalized" => ProfileInRange(nOut)
    /\ nPc = "matched" => ProfileInRange(nOut.speaker)

\* A matched segment whose raw attributes are all far out of range.
C1_Witness ==
    /\ nPc = "matched"
    /\ "start_time" \in DOMAIN nOut
    /\ \E i \in 1..Len(nMeta.segs) :
          /\ "speaker" \in DOMAIN nMeta.segs[i]
          /\ nMeta.segs[i].speaker # EmptyDict
          /\ nMeta.segs[i].speaker.pitch > 300
          /\ nMeta.segs[i].speaker.energy > 10000
          /\ nMeta.segs[i].speaker.speech_rate > 10000
          /\ nMeta.segs[i].start_time = nOut.start_time
          /\ nOut.speaker.gender = "female"
    /\ nOut.speaker.pitch = 210

-----------------------------------------------------------------------------
(* pydub.AudioSegment as process_segment uses it: a clip is a number of    *)
(* frames at a frame rate                                                  *)

SampleRate == 16000
SilenceMs == 200
SilentFrameRate == 11025
ToleranceMs == 100
DefaultVoice == "az-AZ-BabekNeural"

\* round(n / d) for n >= 0, d > 0, halves to even as Python's round
RoundDiv(n, d) ==
    LET q == n \div d
        r == n % d
    IN  IF 2 * r < d THEN q
        ELSE IF 2 * r > d THEN q + 1
        ELSE IF q % 2 = 0 THEN q ELSE q + 1

\* (a * b) \div c for a, b >= 0 and c > 0, computed in two parts
MulDiv(a, b, c) == (a \div c) * b + ((a % c) * b) \div c

Clip(frames, frame_rate) == [frames |-> frames, frame_rate |-> frame_rate]

\* len(audio): milliseconds
AudioLen(audio) == RoundDiv(1000 * audio.frames, audio.frame_rate)

\* AudioSegment.from_mp3 of what the backend wrote
FromMp3(backend) == Clip((backend.ms * backend.frame_rate) \div 1000, backend.frame_rate)

\* AudioSegment.silent(duration)
Silent(ms) == Clip((SilentFrameRate * ms) \div 1000, SilentFrameRate)

\* audio.set_frame_rate(rate): resamples, keeping the duration
SetFrameRate(audio, rate) ==
    IF audio.frame_rate = rate THEN audio
    ELSE Clip(MulDiv(audio.frames, rate, audio.frame_rate), rate)

\* a + b: both sides are brought to the higher frame rate and concatenated
Concat(a, b) ==
    LET rate == Max(a.frame_rate, b.frame_rate)
    IN  Clip(SetFrameRate(a, rate).frames + SetFrameRate(b, rate).frames, rate)

-----------------------------------------------------------------------------
(* process_segment                                                         *)

\* abs(current_duration - target_duration) > 0.1 with a non-empty clip
NeedsStretch(current_ms, target_ms) ==
    current_ms > 0 /\ Abs(current_ms - target_ms) > ToleranceMs

\* InBand without the lower end of the band
InBandNoLowerEnd(current_ms, target_ms) ==
    IF target_ms > 0 THEN current_ms <= 2 * target_ms ELSE FALSE

\* 0.5 <= current_duration / target_duration <= 2.0
InBand(current_ms, target_ms) ==
    IF target_ms > 0
    THEN target_ms <= 2 * current_ms /\ current_ms <= 2 * target_ms
    ELSE FALSE

\* StretchRate with the factor inverted (target / current)
StretchRateInverted(frame_rate, current_ms, target_ms) ==
    (frame_rate * target_ms) \div current_ms

\* int(audio.frame_rate * speed_factor), speed_factor = current / target
StretchRate(frame_rate, current_ms, target_ms) ==
    (frame_rate * current_ms) \div target_ms

\* Lines 277-284: the clip after the duration matching.
MatchDuration(audio, target_ms) ==
    LET current_ms == AudioLen(audio) IN
    IF NeedsStretch(current_ms, target_ms) /\ InBand(current_ms, target_ms)
    THEN SetFrameRate(
             Clip(audio.frames, StretchRate(audio.frame_rate, current_ms, target_ms)),
             SampleRate)
    ELSE audio

\* Lines 258-264: the parameters handed to edge_tts.Communicate.
SegmentParams(text, speaker_info) ==
    [text |-> text,
     voice |-> Get(speaker_info, "voice", DefaultVoice),
     pitch |-> Get(speaker_info, "pitch_change", 0),
     rate |-> Get(speaker_info, "rate_change", 0),
     volume |-> Get(speaker_info, "volume_change", 0)]

\* The whole of process_segment for one outcome of the backend.  calls is
\* the sequence of backend invocations; raised = TRUE is the re-raised
\* exception (lines 310-321), in which case no clip is written.
ProcessSegment(text, speaker_info, target_ms, backend) ==
    LET params == SegmentParams(text, speaker_info)
        failed == [raised |-> TRUE, calls |-> <<params>>, produced_ms |-> 0,
                   stretched |-> FALSE, stretch_rate |-> 0, speech_ms |-> 0,
                   file_ms |-> 0]
    IN  IF backend.kind = "fail" THEN failed
        ELSE LET audio == FromMp3(backend)
                 current_ms == AudioLen(audio)
             IN  IF NeedsStretch(current_ms, target_ms) /\ target_ms = 0
                 THEN failed   \* ZeroDivisionError at line 279
                 ELSE LET matched == MatchDuration(audio, target_ms)
                          stretched == NeedsStretch(current_ms, target_ms)
                                       /\ InBand(current_ms, target_ms)
                          padded == Concat(Concat(Silent(SilenceMs), matched),
                                           Silent(SilenceMs))
                      IN  [raised |-> FALSE, calls |-> <<params>>,
                           produced_ms |-> current_ms,
                           stretched |-> stretched,
                           stretch_rate |-> IF stretched
                                            THEN StretchRate(audio.frame_rate,
                                                             current_ms, target_ms)
                                            ELSE audio.frame_rate,
                           speech_ms |-> AudioLen(matched),
                           file_ms |-> AudioLen(SetFrameRate(padded, SampleRate))]

-----------------------------------------------------------------------------
(* Inputs of process_segment                                               *)

MaxProducedMs == 9000
MaxTargetMs == 9000

FrameRates == {16000, 24000, 44100}

ProducedDurations == {d \in 0..MaxProducedMs : d % 100 \in {0, 1, 50, 99}}

\* A cue's duration is end_time - start_time of whatever the subtitle file
\* says, so it may be zero or negative.
TargetDurations == {-500, 0} \cup {t \in 1..MaxTargetMs : t % 500 = 0}

BackendFail == [kind |-> "fail", ms |-> 0, frame_rate |-> SampleRate]

BackendOutcomes(durations) ==
    {BackendFail}
    \cup {[kind |-> "ok", ms |-> d, frame_rate |-> fr] :
            d \in durations, fr \in FrameRates}

MaxTextLen == 2

\* Texts are sequences of characters: a blank and a letter stand for the
\* whitespace and the non-whitespace characters.
Texts == SeqsUpTo({" ", "a"}, MaxTextLen)

-----------------------------------------------------------------------------
(* Specification of process_segment as a called function                   *)

IdleNorm ==
    /\ nPc = "idle" /\ nSpeakerIn = EmptyDict /\ nCue = IdleCue
    /\ nMeta = IdleMeta /\ nOut = EmptyDict

InitSeg ==
    /\ sPc = "call"
    /\ sText \in {<<" ">>, <<"a">>}
    /\ sTarget \in TargetDurations
    /\ sBackend \in BackendOutcomes(ProducedDurations)
    /\ sOut = EmptyDict
    /\ IdleNorm /\ IdleGen /\ IdlePipe /\ IdleAux

ProcessSegmentCall ==
    /\ sPc = "call"
    /\ sOut' = ProcessSegment(sText, NeutralProfile, sTarget, sBackend)
    /\ sPc' = IF sOut'.raised THEN "raised" ELSE "returned"
    /\ UNCHANGED <<sText, sTarget, sBackend, normVars, genVars, pipeVars, auxVars>>

NextSeg == ProcessSegmentCall

SpecSeg == InitSeg /\ [][NextSeg]_vars

\* C2: when the backend returns a clip of duration p > 0 and the target
\* t > 0 has 0.5 <= p/t <= 2.0, the speech portion of the written clip is
\* within 100 ms of t.
C2_SpeechWithinTolerance ==
    (/\ sPc = "returned"
     /\ sOut.produced_ms > 0 /\ sTarget > 0
     /\ sTarget <= 2 * sOut.produced_ms
     /\ sOut.produced_ms <= 2 * sTarget)
    => /\ sOut.speech_ms - sTarget <= 100
       /\ sTarget - sOut.speech_ms <= 100

\* A 4.4 s clip against a 4.0 s window, brought to 4.0 s.
C2_Witness ==
    /\ sPc = "returned"
    /\ sOut.produced_ms = 4400 /\ sTarget = 4000
    /\ sBackend.frame_rate = 24000
    /\ sOut.speech_ms = 4000

\* C3: the clip is time-stretched if and only if p differs from t by more
\* than 100 ms and p/t lies in [0.5, 2.0]; the frame rate applied is
\* int(frame_rate * p / t); outside the band the clip keeps its duration.
C3_StretchedIffInBand ==
    sPc = "returned" =>
        LET p == sOut.produced_ms
            t == sTarget
            far == p - t > 100 \/ t - p > 100
            band == t > 0 /\ 2 * p >= t /\ p <= 2 * t
        IN  /\ sOut.stretched <=> (far /\ band)
            /\ sOut.stretched =>
                  /\ sOut.stretch_rate * t <= sBackend.frame_rate * p
                  /\ sBackend.frame_rate * p < (sOut.stretch_rate + 1) * t
            /\ ~ sOut.stretched => sOut.speech_ms = p

\* A 4.4 s clip against a 9.0 s window is left at 4.4 s.
C3_Witness ==
    /\ sPc = "returned"
    /\ sOut.produced_ms = 4400 /\ sTarget = 9000
    /\ ~ sOut.stretched
    /\ sOut.speech_ms = 4400

-----------------------------------------------------------------------------
(* generate_speech                                                         *)

SilentClipMs == 1000

SupportedLangs == {"az", "en", "tr"}

\* self.config['voices'][gender][lang]
Voice(gender, lang) ==
    CASE gender = "male" /\ lang = "az"   -> "az-AZ-BabekNeural"
      [] gender = "male" /\ lang = "en"   -> "en-US-GuyNeural"
      [] gender = "male" /\ lang = "tr"   -> "tr-TR-AhmetNeural"
      [] gender = "female" /\ lang = "az" -> "az-AZ-BanuNeural"
      [] gender = "female" /\ lang = "en" -> "en-US-JennyNeural"
      [] gender = "female" /\ lang = "tr" -> "tr-TR-EmelNeural"

\* self.config['pitch_ranges'][gender]['base']
BasePitch(gender) == IF gender = "female" THEN FemalePitch ELSE MalePitch

\* int(a / b) for b > 0: truncation towards zero
TruncDiv(a, b) == IF a >= 0 THEN a \div b ELSE -((-a) \div b)

\* not text or text.isspace(), without the test for whitespace
IsBlankEmptyOnly(text) == text = <<>>

\* not text or text.isspace()
IsBlank(text) == text = <<>> \/ \A i \in 1..Len(text) : text[i] = " "

\* Lines 188-190
SpeechGender(speaker_info) ==
    LET gender == Get(speaker_info, "gender", "male")
    IN  IF gender \in {"male", "female"} THEN gender ELSE "male"

\* Lines 195-223: the parameters of the first attempt.
SpeechParams(text, speaker_info, lang) ==
    LET gender == SpeechGender(speaker_info)
        base_pitch == BasePitch(gender)
        pitch == Get(speaker_info, "pitch", 0)
        rate == Get(speaker_info, "speech_rate", 0)
        volume == Get(speaker_info, "energy", 0)
    IN  [text |-> text,
         voice |-> Voice(gender, lang),
         pitch |-> IF "pitch" \in DOMAIN speaker_info /\ 50 <= pitch /\ pitch <= 300
                   THEN TruncDiv((pitch - base_pitch) * 50, base_pitch) ELSE 0,
         rate |-> IF "speech_rate" \in DOMAIN speaker_info /\ 50 <= rate /\ rate <= 200
                  THEN rate - 100 ELSE 0,
         volume |-> IF "energy" \in DOMAIN speaker_info /\ 100 <= volume /\ volume <= 2000
                    THEN TruncDiv(volume - 1000, 10) ELSE 0]

\* RetryParams that repeats the overrides of the first attempt
RetryParamsWithOverrides(text, speaker_info, lang) ==
    [text |-> text, voice |-> Voice("male", lang),
     pitch |-> SpeechParams(text, speaker_info, lang).pitch,
     rate |-> SpeechParams(text, speaker_info, lang).rate,
     volume |-> SpeechParams(text, speaker_info, lang).volume]

\* Lines 240-243: the parameters of the retry.
RetryParams(text, speaker_info, lang) ==
    [text |-> text, voice |-> Voice("male", lang)]

Invocation(attempt, params) ==
    [attempt |-> attempt, params |-> params, outcome |-> "pending"]

\* The except handler of line 236 up to the await of line 244: the lookup
\* of the voice raises for an unsupported language.
EnterRetry ==
    IF gLang \in SupportedLangs
    THEN /\ gCalls' = Append(gCalls,
                Invocation("retry", RetryParams(gText, gSpeaker, gLang)))
         /\ gPc' = "await_retry"
         /\ gOut' = gOut
    ELSE /\ gCalls' = gCalls
         /\ gPc' = "raised"
         /\ gOut' = "exception"

\* generate_speech up to its first await or its return.
GenerateSpeechEnter ==
    /\ gPc = "call"
    /\ IF IsBlank(gText)
       THEN IF gWritable
            THEN /\ gFile' = [kind |-> "silence", ms |-> AudioLen(Silent(SilentClipMs))]
                 /\ gOut' = "output_path"
                 /\ gPc' = "returned"
                 /\ gCalls' = gCalls
            ELSE /\ EnterRetry
                 /\ gFile' = gFile
       ELSE IF gLang \in SupportedLangs
            THEN /\ gCalls' = Append(gCalls,
                        Invocation("first", SpeechParams(gText, gSpeaker, gLang)))
                 /\ gPc' = "await_first"
                 /\ UNCHANGED <<gFile, gOut>>
            ELSE /\ EnterRetry
                 /\ gFile' = gFile
    /\ UNCHANGED <<gText, gSpeaker, gLang, gWritable, normVars, segVars, pipeVars, auxVars>>

\* What the backend does with an invocation: it writes its audio, it writes
\* nothing or a file below the size check, or it raises.
SaveOutcomes == {"audio", "small", "raise"}

SetOutcome(calls, outcome) == [calls EXCEPT ![Len(calls)].outcome = outcome]

\* Lines 228-234: the first attempt completes.
GenerateSpeechFirstDone ==
    /\ gPc = "await_first"
    /\ \E outcome \in SaveOutcomes :
          LET done == SetOutcome(gCalls, outcome) IN
          /\ gFile' = IF outcome = "raise" THEN gFile
                      ELSE [kind |-> outcome, ms |-> 0]
          /\ IF outcome = "audio"
             THEN /\ gCalls' = done
                  /\ gOut' = "output_path"
                  /\ gPc' = "returned"
             ELSE /\ gCalls' = Append(done,
                        Invocation("retry", RetryParams(gText, gSpeaker, gLang)))
                  /\ gPc' = "await_retry"
                  /\ gOut' = gOut
    /\ UNCHANGED <<gText, gSpeaker, gLang, gWritable, normVars, segVars, pipeVars, auxVars>>

\* Lines 244-248: the retry completes; its file is not checked.
GenerateSpeechRetryDone ==
    /\ gPc = "await_retry"
    /\ \E outcome \in SaveOutcomes :
          /\ gCalls' = SetOutcome(gCalls, outcome)
          /\ gFile' = IF outcome = "raise" THEN gFile
                      ELSE [kind |-> outcome, ms |-> 0]
          /\ gOut' = IF outcome = "raise" THEN "exception" ELSE "output_path"
          /\ gPc' = IF outcome = "raise" THEN "raised" ELSE "returned"
    /\ UNCHANGED <<gText, gSpeaker, gLang, gWritable, normVars, segVars, pipeVars, auxVars>>

NoFile == [kind |-> "none", ms |-> 0]

InitGen ==
    /\ gPc = "call"
    /\ gText \in Texts
    /\ gSpeaker \in MetaSpeakers \cup {NormalizeSpeakerParams(sp) : sp \in MetaSpeakers}
    /\ gLang \in {"az", "en", "xx"}
    /\ gWritable \in BOOLEAN
    /\ gCalls = <<>>
    /\ gFile = NoFile
    /\ gOut = "none"
    /\ IdleNorm /\ IdleSeg /\ IdlePipe /\ IdleAux

NextGen ==
    \/ GenerateSpeechEnter
    \/ GenerateSpeechFirstDone
    \/ GenerateSpeechRetryDone

SpecGen == InitGen /\ [][NextGen]_vars

\* C5: generate_speech with empty or whitespace-only text and a writable
\* output path writes exactly 1000 ms of silence, returns the path and never
\* invokes the backend.
C5_BlankTextGivesSilence ==
    (/\ gPc \notin {"idle", "call"}
     /\ gWritable
     /\ \A i \in 1..Len(gText) : gText[i] = " ")
    => /\ gPc = "returned"
       /\ gOut = "output_path"
       /\ gFile = [kind |-> "silence", ms |-> 1000]
       /\ gCalls = <<>>

C5_Witness ==
    /\ gPc = "returned"
    /\ gText = <<" ", " ">>
    /\ gWritable
    /\ gFile.kind = "silence"

\* C7: for non-empty text generate_speech invokes the backend at most twice;
\* the second invocation follows a failed first attempt and carries no pitch,
\* rate or volume override; when it raises, the error reaches the caller.
C7_AtMostOneRetry ==
    (gPc # "idle" /\ \E i \in 1..Len(gText) : gText[i] # " ")
    => /\ Len(gCalls) <= 2
       /\ Len(gCalls) = 2 =>
             /\ gCalls[1].outcome \in {"small", "raise"}
             /\ DOMAIN gCalls[2].params \cap {"pitch", "rate", "volume"} = {}
             /\ gCalls[2].outcome = "raise" => gPc = "raised" /\ gOut = "exception"
             /\ gPc = "raised" => gCalls[2].outcome = "raise"
       /\ gPc \in {"returned", "raised"} =>
             \A i \in 1..Len(gCalls) : gCalls[i].outcome # "pending"

C7_Witness ==
    /\ gPc = "raised"
    /\ gText = <<"a">>
    /\ Len(gCalls) = 2
    /\ gCalls[1].params.pitch # 0
    /\ gCalls[2].outcome = "raise"

-----------------------------------------------------------------------------
(* process_movie and scripts/dub_video.py main                             *)

MaxCues == 2

\* Cue windows of a subtitle file: a plain one, one that overlaps it and
\* ends after the video, one of zero length and one that follows the first.
CueWindowInputs == { <<10000, 13000>>, <<12000, 16000>>, <<13000, 13000>>,
                     <<13000, 15000>> }

Cue(index, window, text) ==
    [index |-> index, start_time |-> window[1], end_time |-> window[2],
     duration |-> window[2] - window[1], text |-> text]

\* Cues as read_srt returns them; the index is the number the file gives.
CueInputs ==
    {Cue(1, w, t) : w \in CueWindowInputs, t \in {<<" ">>, <<"a">>}}
    \cup {Cue(2, <<13000, 15000>>, t) : t \in {<<" ">>, <<"a">>}}

SessionMetadata ==
    [present |-> TRUE,
     segs |-> << [segment_id |-> 0, start_time |-> 9500, end_time |-> 13200,
                  speaker |-> [gender |-> "female", gender_confidence |-> 90,
                               pitch |-> 220, energy |-> 1200, speech_rate |-> 110]],
                 [segment_id |-> 1, start_time |-> 13200, end_time |-> 15000,
                  speaker |-> [gender |-> "male", gender_confidence |-> 50,
                               pitch |-> 110, energy |-> 900, speech_rate |-> 120]] >>]

PipelineBackendOutcomes == BackendOutcomes({4400})

InitPipe ==
    /\ pc = "start"
    /\ sessions \in {{}, {"session_old"}}
    /\ session_dir = "none"
    /\ inputsReadable \in BOOLEAN
    /\ subtitles \in SeqsUpTo(CueInputs, MaxCues)
    /\ metadata \in {SessionMetadata, IdleMeta}
    /\ cur = 0
    /\ audio_segments = <<>>
    /\ successful_count = 0
    /\ synthLog = <<>>
    /\ cueResult = <<>>
    /\ files = EmptyDict
    /\ movieOut = "none"
    /\ vpLog = <<>>
    /\ overlaid = <<>>
    /\ IdleNorm /\ IdleSeg /\ IdleGen /\ IdleAux

\* main, lines 103-112: transcription, then the first session_* directory
\* that glob lists, in the order the file system gives.
MainTranscribe ==
    /\ pc = "start"
    /\ \E ok \in BOOLEAN :
          /\ sessions' = sessions \cup {"session_new"}
          /\ IF ok
             THEN /\ session_dir' \in sessions'
                  /\ pc' = "transcribed"
             ELSE /\ session_dir' = session_dir
                  /\ pc' = "exit1"
    /\ UNCHANGED <<movieVars, vpLog, overlaid, normVars, segVars, genVars, auxVars>>

\* main, lines 114-122
MainTranslate ==
    /\ pc = "transcribed"
    /\ \E ok \in BOOLEAN : pc' = IF ok THEN "translated" ELSE "exit1"
    /\ UNCHANGED <<movieVars, sessions, session_dir, vpLog, overlaid,
                   normVars, segVars, genVars, auxVars>>

\* process_movie, lines 325-334: read_srt or read_metadata may raise.
ProcessMovieStart ==
    /\ pc = "translated"
    /\ IF inputsReadable
       THEN /\ pc' = "synth"
            /\ cur' = 1
            /\ movieOut' = "running"
       ELSE /\ pc' = "exit1"
            /\ cur' = cur
            /\ movieOut' = "raised"
    /\ UNCHANGED <<inputsReadable, subtitles, metadata, audio_segments,
                   successful_count, synthLog, cueResult, files,
                   sessions, session_dir, vpLog, overlaid,
                   normVars, segVars, genVars, auxVars>>

\* AfterCue for a loop that a failed cue ends
AfterCueAbortOnFailure(i, raised, n) == IF raised THEN n + 1 ELSE i + 1

\* Lines 361-363: a failed cue is logged and the loop continues.
AfterCue(i, raised, n) == i + 1

\* One iteration of the loop of lines 336-363.
ProcessCue ==
    /\ pc = "synth"
    /\ cur <= Len(subtitles)
    /\ \E backend \in PipelineBackendOutcomes :
          LET sub == subtitles[cur]
              segment_metadata == FindMatchingSegment(sub, metadata)
              audio_path == sub.index
              res == ProcessSegment(sub.text, segment_metadata.speaker,
                                    sub.duration, backend)
          IN  /\ synthLog' = synthLog \o
                    [k \in 1..Len(res.calls) |->
                        [cue |-> cur, params |-> res.calls[k], kind |-> backend.kind]]
              /\ IF res.raised
                 THEN /\ cueResult' = Append(cueResult, "skipped")
                      /\ UNCHANGED <<audio_segments, successful_count, files>>
                 ELSE /\ cueResult' = Append(cueResult, "ok")
                      /\ files' = (audio_path :> [cue |-> cur,
                                                  speech_ms |-> res.speech_ms,
                                                  file_ms |-> res.file_ms]) @@ files
                      /\ audio_segments' = Append(audio_segments,
                            [path |-> audio_path,
                             start_time |-> sub.start_time,
                             end_time |-> sub.end_time,
                             duration |-> sub.duration,
                             text |-> sub.text,
                             speaker_info |-> segment_metadata.speaker])
                      /\ successful_count' = successful_count + 1
              /\ cur' = AfterCue(cur, res.raised, Len(subtitles))
    /\ UNCHANGED <<inputsReadable, subtitles, metadata, movieOut, mainVars,
                   normVars, segVars, genVars, auxVars>>

\* MovieRaises for a stage that fails when any cue failed
MovieRaisesOnAnyFailure(count, n) == count < n \/ n = 0

\* Lines 367-383: the stage fails only when no cue succeeded.
MovieRaises(count, n) == ~ (count > 0)

\* Lines 365-387: after the loop.
ProcessMovieFinish ==
    /\ pc = "synth"
    /\ cur > Len(subtitles)
    /\ IF MovieRaises(successful_count, Len(subtitles))
       THEN /\ movieOut' = "raised"
            /\ pc' = "exit1"
       ELSE /\ movieOut' = "returned"
            /\ pc' = "burn"
    /\ UNCHANGED <<inputsReadable, subtitles, metadata, cur, audio_segments,
                   successful_count, synthLog, cueResult, files,
                   sessions, session_dir, vpLog, overlaid,
                   normVars, segVars, genVars, auxVars>>

\* main, lines 139-145
MainBurnSubtitles ==
    /\ pc = "burn"
    /\ \E ok \in BOOLEAN : pc' = IF ok THEN "merge" ELSE "exit1"
    /\ UNCHANGED <<movieVars, sessions, session_dir, vpLog, overlaid,
                   normVars, segVars, genVars, auxVars>>

\* merge_audio_segments_with_video, lines 62-66: every segment whose file
\* exists is overlaid at int(start_time * 1000).
Overlays(segments, written) ==
    LET present == SelectSeq(segments, LAMBDA seg : seg.path \in DOMAIN written)
    IN  [k \in 1..Len(present) |->
            [path |-> present[k].path,
             position_ms |-> present[k].start_time,
             length_ms |-> written[present[k].path].file_ms]]

\* main, lines 148-154, with merge_audio_segments_with_video: the video may be
\* missing, and ffprobe or ffmpeg may fail.
MainMerge ==
    /\ pc = "merge"
    /\ vpLog' = Append(vpLog, [method |-> "merge_audio_segments_with_video",
                               segments |-> audio_segments])
    /\ \E outcome \in {"no_video", "ffmpeg_failed", "ok"} :
          /\ overlaid' = IF outcome = "no_video" THEN overlaid
                         ELSE Overlays(audio_segments, files)
          /\ pc' = IF outcome = "ok" THEN "done" ELSE "exit1"
    /\ UNCHANGED <<movieVars, sessions, session_dir, normVars, segVars, genVars, auxVars>>

Next ==
    \/ MainTranscribe
    \/ MainTranslate
    \/ ProcessMovieStart
    \/ ProcessCue
    \/ ProcessMovieFinish
    \/ MainBurnSubtitles
    \/ MainMerge

Init == InitPipe

Spec == Init /\ [][Next]_vars

-----------------------------------------------------------------------------
(* Properties of process_movie and main                                    *)

\* The backend invocations made for the cue at position i
CallsFor(i) == SelectSeq(synthLog, LAMBDA e : e.cue = i)

BlankText(text) == \A k \in 1..Len(text) : text[k] = " "

\* cues whose loop iteration is over
Processed == 1..Len(cueResult)

\* C4: for a cue whose text is empty or whitespace-only the backend is never
\* invoked and the clip produced is exactly 1 second of silence.
C4_BlankCueIsSilentWithoutBackend ==
    \A i \in Processed :
        BlankText(subtitles[i].text) =>
            /\ CallsFor(i) = <<>>
            /\ cueResult[i] = "ok"
            /\ files[subtitles[i].index].file_ms = 1000

\* C6: when the backend fails on the first attempt for a cue it is invoked
\* exactly one more time, without pitch, rate or volume overrides; a cue is
\* skipped only after two failed backend attempts.
C6_SkipOnlyAfterRetry ==
    \A i \in Processed :
        /\ (CallsFor(i) # <<>> /\ CallsFor(i)[1].kind = "fail") =>
              /\ Len(CallsFor(i)) = 2
              /\ DOMAIN CallsFor(i)[2].params \cap {"pitch", "rate", "volume"} = {}
        /\ cueResult[i] = "skipped" =>
              /\ Len(CallsFor(i)) = 2
              /\ \A k \in 1..2 : CallsFor(i)[k].kind = "fail"

RECURSIVE SucceededCues(_)
\* the cues whose synthesis succeeded, in subtitle-file order, up to i
SucceededCues(i) ==
    IF i = 0 THEN <<>>
    ELSE IF cueResult[i] = "ok"
         THEN Append(SucceededCues(i - 1), subtitles[i])
         ELSE SucceededCues(i - 1)

\* C8: process_movie attempts every parsed cue exactly once, in file order,
\* whatever happened to earlier cues, and returns exactly the cues whose
\* synthesis succeeded, in file order, each with its own start and end time.
C8_EveryCueOnceInOrder ==
    /\ movieOut = "running" =>
          /\ Len(cueResult) = cur - 1
          /\ [k \in 1..Len(synthLog) |-> synthLog[k].cue] = [k \in Processed |-> k]
    /\ (movieOut = "returned" \/ (movieOut = "raised" /\ inputsReadable)) =>
          /\ Len(cueResult) = Len(subtitles)
          /\ [k \in 1..Len(synthLog) |-> synthLog[k].cue]
                = [k \in 1..Len(subtitles) |-> k]
    /\ movieOut = "returned" =>
          /\ Len(audio_segments) = Len(SucceededCues(Len(subtitles)))
          /\ \A k \in 1..Len(audio_segments) :
                /\ audio_segments[k].start_time
                      = SucceededCues(Len(subtitles))[k].start_time
                /\ audio_segments[k].end_time
                      = SucceededCues(Len(subtitles))[k].end_time
                /\ audio_segments[k].text = SucceededCues(Len(subtitles))[k].text

\* The first cue failed, the second one succeeded and is the one returned.
C8_Witness ==
    /\ movieOut = "returned"
    /\ Len(subtitles) = 2
    /\ cueResult = <<"skipped", "ok">>
    /\ Len(audio_segments) = 1
    /\ subtitles[1].start_time # subtitles[2].start_time

\* C9: process_movie raises if and only if no cue was synthesized
\* successfully; with at least one success it returns a non-empty list.
C9_RaisesIffNoSuccess ==
    /\ movieOut = "raised" => \A i \in Processed : cueResult[i] # "ok"
    /\ movieOut = "returned" =>
          /\ \E i \in Processed : cueResult[i] = "ok"
          /\ audio_segments # <<>>
    /\ (pc # "synth" /\ \E i \in Processed : cueResult[i] = "ok") =>
          movieOut = "returned"
    /\ (pc \notin {"start", "transcribed", "translated", "synth"}
        /\ movieOut # "none"
        /\ \A i \in Processed : cueResult[i] # "ok") => movieOut = "raised"

\* One cue failed, the other succeeded, and the stage returned.
C9_Witness ==
    /\ movieOut = "returned"
    /\ \E i \in Processed : cueResult[i] = "skipped"
    /\ \E i \in Processed : cueResult[i] = "ok"

\* C10: merge_audio_segments_with_video overlays a segment list only after
\* validate_audio_sync has been run on the same list and returned true.
C10_MergeOnlyAfterValidation ==
    \A i \in 1..Len(vpLog) :
        vpLog[i].method = "merge_audio_segments_with_video" =>
            \E j \in 1..(i - 1) :
                /\ vpLog[j].method = "validate_audio_sync"
                /\ vpLog[j].segments = vpLog[i].segments
                /\ vpLog[j].result = TRUE

-----------------------------------------------------------------------------
(* validate_audio_sync                                                     *)

MaxSyncSegments == 2

\* Overlap that also counts windows that only touch
OverlapOrTouch(segment, other_segment) ==
    /\ segment.start_time <= other_segment.end_time
    /\ segment.end_time >= other_segment.start_time

\* Lines 212-213
Overlap(segment, other_segment) ==
    /\ segment.start_time < other_segment.end_time
    /\ segment.end_time > other_segment.start_time

\* Lines 202-215 for the segment at position i: it ends after the video, or
\* it overlaps a segment that differs from it as a dict (segment !=
\* other_segment compares the values, not the positions).
SegmentRejected(segments, i, video_duration) ==
    \/ segments[i].end_time > video_duration
    \/ \E j \in 1..Len(segments) :
          /\ segments[i] # segments[j]
          /\ Overlap(segments[i], segments[j])

RECURSIVE ValidateFrom(_, _, _)
\* The loop of line 201 from position i on.
ValidateFrom(segments, i, video_duration) ==
    IF i > Len(segments) THEN TRUE
    ELSE IF SegmentRejected(segments, i, video_duration) THEN FALSE
    ELSE ValidateFrom(segments, i + 1, video_duration)

\* video = [ok, ms]: get_video_duration raises when ffprobe fails, and the
\* handler of line 219 returns False.
ValidateAudioSync(video, segments) ==
    IF ~ video.ok THEN FALSE
    ELSE ValidateFrom(segments, 1, video.ms)

VideoInputs == {[ok |-> FALSE, ms |-> 0], [ok |-> TRUE, ms |-> 15000]}

SyncWindowInputs == { <<10000, 13000>>, <<12000, 15000>>, <<13000, 15000>>,
                      <<14000, 16000>>, <<11000, 11000>> }

\* Entries of the list process_movie returns, reduced to the fields that
\* tell two of them apart.
SyncSegmentInputs ==
    {[path |-> p, start_time |-> w[1], end_time |-> w[2]] :
        p \in {1, 2}, w \in SyncWindowInputs}

InitSync ==
    /\ vPc = "call"
    /\ vVideo \in VideoInputs
    /\ vSegments \in SeqsUpTo(SyncSegmentInputs, MaxSyncSegments)
    /\ vOut = FALSE
    /\ IdleNorm /\ IdleSeg /\ IdleGen /\ IdlePipe /\ IdleAudio /\ IdleTime
    /\ IdleRest

ValidateCall ==
    /\ vPc = "call"
    /\ vOut' = ValidateAudioSync(vVideo, vSegments)
    /\ vPc' = "returned"
    /\ UNCHANGED <<vVideo, vSegments, normVars, segVars, genVars, pipeVars,
                   audioVars, timeVars, restVars>>

NextSync == ValidateCall

SpecSync == InitSync /\ [][NextSync]_vars

\* C11: validate_audio_sync returns false for every list that holds two
\* segments at different positions whose windows overlap, whatever their
\* other fields are.
C11_OverlapRejected ==
    (/\ vPc = "returned"
     /\ \E i, j \in 1..Len(vSegments) :
           /\ i # j
           /\ vSegments[i].start_time < vSegments[j].end_time
           /\ vSegments[i].end_time > vSegments[j].start_time)
    => vOut = FALSE

\* C12: when the track duration can be obtained, validate_audio_sync returns
\* true for every list whose end times are within the duration and in which
\* no two segments overlap; windows that only touch do not overlap.
C12_ValidListAccepted ==
    (/\ vPc = "returned"
     /\ vVideo.ok
     /\ \A i \in 1..Len(vSegments) : vSegments[i].end_time <= vVideo.ms
     /\ \A i, j \in 1..Len(vSegments) :
           i # j => ~ (/\ vSegments[i].start_time < vSegments[j].end_time
                       /\ vSegments[i].end_time > vSegments[j].start_time))
    => vOut = TRUE

\* Two windows that touch at 13.0 s are accepted.
C12_Witness ==
    /\ vPc = "returned"
    /\ Len(vSegments) = 2
    /\ vSegments[1].end_time = 13000
    /\ vSegments[2].start_time = 13000
    /\ vSegments[1].start_time < vSegments[1].end_time
    /\ vSegments[2].start_time < vSegments[2].end_time
    /\ vOut = TRUE

-----------------------------------------------------------------------------
(* Properties of the matcher                                               *)

\* a segment as process_audio_segment writes it
WellFormedSegment(segment) ==
    {"segment_id", "start_time", "end_time", "speaker"} \subseteq DOMAIN segment

\* |segment.start - cue.start| + |segment.end - cue.end| in milliseconds
CueDistance(cue, segment) ==
    (IF segment.start_time >= cue.start_time
     THEN segment.start_time - cue.start_time
     ELSE cue.start_time - segment.start_time)
    + (IF segment.end_time >= cue.end_time
       THEN segment.end_time - cue.end_time
       ELSE cue.end_time - segment.end_time)

\* the first position that attains the least distance
FirstNearest(cue, segs) ==
    CHOOSE i \in 1..Len(segs) :
        /\ \A j \in 1..Len(segs) : CueDistance(cue, segs[j]) >= CueDistance(cue, segs[i])
        /\ \A j \in 1..(i - 1) : CueDistance(cue, segs[j]) > CueDistance(cue, segs[i])

\* C13: for every cue and every non-empty list of metadata segments,
\* _find_matching_segment selects the segment with the least
\* |start difference| + |end difference|, and the first such segment of the
\* list when several attain it.
C13_NearestFirstWins ==
    (/\ nPc = "matched"
     /\ nMeta.present
     /\ nMeta.segs # <<>>
     /\ \A i \in 1..Len(nMeta.segs) : WellFormedSegment(nMeta.segs[i]))
    => LET best == nMeta.segs[FirstNearest(nCue, nMeta.segs)]
       IN  /\ "start_time" \in DOMAIN nOut
           /\ nOut.segment_id = best.segment_id
           /\ nOut.start_time = best.start_time
           /\ nOut.end_time = best.end_time
           /\ nOut.speaker = MatchedProfile(best.speaker)

\* Cue 10.0-13.0 against [0-5, 9.5-13.2] resolves to the second segment.
C13_Witness ==
    /\ nPc = "matched"
    /\ nCue = [start_time |-> 10000, end_time |-> 13000]
    /\ nMeta.present
    /\ Len(nMeta.segs) = 2
    /\ WellFormedSegment(nMeta.segs[1]) /\ WellFormedSegment(nMeta.segs[2])
    /\ nMeta.segs[1].start_time = 0 /\ nMeta.segs[1].end_time = 5000
    /\ nMeta.segs[2].start_time = 9500 /\ nMeta.segs[2].end_time = 13200
    /\ nOut.start_time = 9500 /\ nOut.end_time = 13200

\* C14: _find_matching_segment always returns a speaker profile, and when the
\* segment list is None, empty or without a usable segment it returns the
\* neutral profile male, pitch 120, energy 1.0, rate 1.0, confidence 1.0.
C14_NeutralFallback ==
    nPc = "matched" =>
        /\ "speaker" \in DOMAIN nOut
        /\ {"gender", "pitch", "energy", "speech_rate"} \subseteq DOMAIN nOut.speaker
        /\ (\/ ~ nMeta.present
            \/ \A i \in 1..Len(nMeta.segs) : ~ WellFormedSegment(nMeta.segs[i]))
           => nOut.speaker = [gender |-> "male", gender_confidence |-> 100,
                              pitch |-> 120, energy |-> 1000, speech_rate |-> 100]

\* A list whose only segments lack the speaker or the segment_id.
C14_Witness ==
    /\ nPc = "matched"
    /\ nMeta.present
    /\ Len(nMeta.segs) = 2
    /\ "speaker" \notin DOMAIN nMeta.segs[1]
    /\ "segment_id" \notin DOMAIN nMeta.segs[2]
    /\ nOut.speaker.gender = "male" /\ nOut.speaker.pitch = 120

-----------------------------------------------------------------------------
(* Properties of the parameters process_movie sends to the backend         *)

\* the normalized profile matched to the cue at position i
MatchedSpeaker(i) == FindMatchingSegment(subtitles[i], metadata).speaker

\* C15: for each cue processed by process_movie the voice sent to the backend
\* is the voice-table entry for the gender of the matched profile.
C15_VoiceFollowsGender ==
    \A k \in 1..Len(synthLog) :
        LET gender == MatchedSpeaker(synthLog[k].cue).gender IN
        /\ gender = "female" => synthLog[k].params.voice = "az-AZ-BanuNeural"
        /\ gender = "male" => synthLog[k].params.voice = "az-AZ-BabekNeural"

\* C16: for each cue processed by process_movie the pitch, rate and volume
\* deltas sent to the backend are (pitch - base)/base*50, (rate - 1.0)*100
\* and (energy - 1.0)*100 of the matched normalized profile, as integers.
C16_DeltasFollowProfile ==
    \A k \in 1..Len(synthLog) :
        LET speaker == MatchedSpeaker(synthLog[k].cue)
            base == IF speaker.gender = "female" THEN FemalePitch ELSE MalePitch
        IN  /\ synthLog[k].params.pitch = TruncDiv((speaker.pitch - base) * 50, base)
            /\ synthLog[k].params.rate = speaker.speech_rate - 100
            /\ synthLog[k].params.volume = TruncDiv(speaker.energy - 1000, 10)

-----------------------------------------------------------------------------
(* transcriber.py: split_on_silence and the chunk loop of process_audio    *)
(* Lengths are whole milliseconds, as len() of an AudioSegment is.  A      *)
(* chunk is [kind, index, ms]: kind "chunk" is the index-th piece returned *)
(* by the silence detector, "window" the index-th fixed window,            *)
(* "normalized" the whole normalized stream and "original" the whole       *)
(* input stream.                                                           *)

WindowMs == 30000
MinChunkMs == 1000
SkipBelowMs == 500
MaxChunks == 3

RECURSIVE SumMs(_, _)
\* total length of the first n chunks of a list
SumMs(list, n) == IF n = 0 THEN 0 ELSE SumMs(list, n - 1) + list[n].ms

\* the detector's pieces, in order
DetectedChunks(lens) ==
    [i \in 1..Len(lens) |-> [kind |-> "chunk", index |-> i - 1, ms |-> lens[i]]]

\* normalized_audio[i:i + chunk_length] for i in range(0, len, chunk_length)
FixedWindows(audio_ms) ==
    [i \in 1..((audio_ms + WindowMs - 1) \div WindowMs) |->
        [kind |-> "window", index |-> i - 1,
         ms |-> Min(WindowMs, audio_ms - (i - 1) * WindowMs)]]

\* the list that is filtered: the detector's pieces, or the fixed windows
\* when the detector returned none
Candidates(audio_ms, lens) ==
    IF lens = <<>> THEN FixedWindows(audio_ms) ELSE DetectedChunks(lens)

KeepsAtLeast(chunk) == chunk.ms >= MinChunkMs
\* the filter of filtered_chunks
Keeps(chunk) == chunk.ms > MinChunkMs

OrNothing(filtered_chunks, normalized_audio) == filtered_chunks
\* if not filtered_chunks: return [normalized_audio]
OrWhole(filtered_chunks, normalized_audio) ==
    IF filtered_chunks = <<>> THEN <<normalized_audio>> ELSE filtered_chunks

SplitOnSilence(audio_ms, detect) ==
    IF detect.raised
        THEN <<[kind |-> "original", index |-> 0, ms |-> audio_ms]>>
        ELSE OrWhole(SelectSeq(Candidates(audio_ms, detect.lens), Keeps),
                     [kind |-> "normalized", index |-> 0, ms |-> audio_ms])

\* lengths of the input audio, and of the pieces the detector may return
AudioLengths == {400, 1000, 2600, 31000}
ChunkLengths == {400, 1000, 1001, 1500}

\* what normalize and the silence detector do with an audio of this length:
\* either of them raises, or the detector returns pieces of the stream
\* (none, when no silence is found) that do not overlap
DetectOutcomes(audio_ms) ==
    {[raised |-> TRUE, lens |-> <<>>]} \cup
    {[raised |-> FALSE, lens |-> l] :
        l \in {q \in SeqsUpTo(ChunkLengths, MaxChunks) :
                  SumMs([i \in 1..Len(q) |-> [ms |-> q[i]]], Len(q)) <= audio_ms}}

\* duration, end_time and the identifying fields of segment_info
SegmentInfo(chunk, start_time, segment_index) ==
    [segment_id |-> segment_index,
     start_time |-> start_time,
     end_time |-> start_time + chunk.ms,
     duration |-> chunk.ms]

CursorStuck(cursor, chunk) == cursor
\* current_time += len(chunk) / 1000
CursorAfter(cursor, chunk) == cursor + chunk.ms

InitAudio ==
    /\ aPc = "start"
    /\ aAudioMs \in AudioLengths
    /\ aDetect \in DetectOutcomes(aAudioMs)
    /\ chunks = <<>> /\ aIdx = 0 /\ current_time = 0
    /\ processed_segments = <<>>
    /\ IdleNorm /\ IdleSeg /\ IdleGen /\ IdlePipe /\ IdleSync /\ IdleTime
    /\ IdleRest

\* process_audio up to the loop
ProcessAudioStart ==
    /\ aPc = "start"
    /\ chunks' = SplitOnSilence(aAudioMs, aDetect)
    /\ processed_segments' = <<>>
    /\ current_time' = 0
    /\ aIdx' = 0
    /\ aPc' = "loop"
    /\ UNCHANGED <<aAudioMs, aDetect, normVars, segVars, genVars, pipeVars,
                   syncVars, timeVars, restVars>>

SkipsNothing(chunk) == FALSE
\* if len(chunk) < 500: the chunk is passed over
Skips(chunk) == chunk.ms < SkipBelowMs

\* one iteration of the loop; aIdx is the index i of enumerate(chunks)
ProcessChunk ==
    /\ aPc = "loop"
    /\ aIdx < Len(chunks)
    /\ LET chunk == chunks[aIdx + 1] IN
       IF Skips(chunk)
           THEN /\ current_time' = current_time + chunk.ms
                /\ aIdx' = aIdx + 1
                /\ UNCHANGED <<aPc, processed_segments>>
           ELSE \E transcribed \in BOOLEAN :
                IF transcribed
                    THEN /\ processed_segments' =
                              Append(processed_segments,
                                     SegmentInfo(chunk, current_time, aIdx))
                         /\ current_time' = CursorAfter(current_time, chunk)
                         /\ aIdx' = aIdx + 1
                         /\ UNCHANGED aPc
                    ELSE /\ aPc' = "raised"
                         /\ UNCHANGED <<aIdx, current_time, processed_segments>>
    /\ UNCHANGED <<aAudioMs, aDetect, chunks, normVars, segVars, genVars,
                   pipeVars, syncVars, timeVars, restVars>>

\* the loop is over: the session metadata and the transcripts are written
ProcessAudioFinish ==
    /\ aPc = "loop"
    /\ aIdx = Len(chunks)
    /\ aPc' = "done"
    /\ UNCHANGED <<aAudioMs, aDetect, chunks, aIdx, current_time,
                   processed_segments, normVars, segVars, genVars, pipeVars,
                   syncVars, timeVars, restVars>>

NextAudio == ProcessAudioStart \/ ProcessChunk \/ ProcessAudioFinish

SpecAudio == InitAudio /\ [][NextAudio]_vars

\* C17: split_on_silence never returns an empty list for non-empty input
\* audio, whether the detector returns no piece, every piece is filtered out
\* or splitting raises.
C17_NeverEmpty ==
    (aPc \in {"loop", "done", "raised"} /\ aAudioMs > 0) => Len(chunks) >= 1

\* every piece was filtered out and the whole stream came back
C17_Witness ==
    /\ aPc = "loop"
    /\ ~ aDetect.raised
    /\ aDetect.lens # <<>>
    /\ \A i \in 1..Len(aDetect.lens) : aDetect.lens[i] <= MinChunkMs
    /\ Len(chunks) = 1

\* C18 as stated: when at least one chunk survives, split_on_silence returns
\* exactly the chunks of at least 1 second in their original order; when none
\* survives it returns the whole normalized stream.
C18_KeepsAtLeastOneSecond ==
    (aPc \in {"loop", "done", "raised"} /\ ~ aDetect.raised) =>
        LET candidates == Candidates(aAudioMs, aDetect.lens)
            survivors == SelectSeq(candidates, LAMBDA c : c.ms >= 1000)
        IN  IF survivors # <<>>
                THEN chunks = survivors
                ELSE chunks = <<[kind |-> "normalized", index |-> 0,
                                 ms |-> aAudioMs]>>

\* C18 amended: when at least one chunk survives, split_on_silence returns
\* exactly the chunks strictly longer than 1 second in their original order
\* (chunks of 1 second or shorter are discarded); when none survives it
\* returns the whole normalized stream.
C18_KeepsLongerThanOneSecond ==
    (aPc \in {"loop", "done", "raised"} /\ ~ aDetect.raised) =>
        LET candidates == Candidates(aAudioMs, aDetect.lens)
            survivors == SelectSeq(candidates, LAMBDA c : c.ms > 1000)
        IN  IF survivors # <<>>
                THEN chunks = survivors
                ELSE chunks = <<[kind |-> "normalized", index |-> 0,
                                 ms |-> aAudioMs]>>

\* a piece of exactly 1 second was discarded next to a longer one
C18_Witness ==
    /\ aPc = "loop"
    /\ ~ aDetect.raised
    /\ \E i \in 1..Len(aDetect.lens) : aDetect.lens[i] = 1000
    /\ Len(chunks) >= 1
    /\ \A i \in 1..Len(chunks) : chunks[i].kind = "chunk" /\ chunks[i].ms > 1000

\* C19: a chunk shorter than 500 ms produces no transcript segment, and the
\* start_time of every processed segment is the sum of the lengths of all the
\* chunks before it in the chunk list.
C19_CursorIsPrefixSum ==
    /\ \A k \in 1..Len(processed_segments) :
           LET s == processed_segments[k] IN
           /\ s.segment_id + 1 \in 1..Len(chunks)
           /\ chunks[s.segment_id + 1].ms >= 500
           /\ s.start_time = SumMs(chunks, s.segment_id)
    /\ \A i \in 1..aIdx :
           chunks[i].ms < 500 =>
               \A k \in 1..Len(processed_segments) :
                   processed_segments[k].segment_id # i - 1

\* two chunks were processed, the second one starting where the first ended
C19_Witness ==
    /\ aPc = "done"
    /\ Len(processed_segments) >= 2
    /\ processed_segments[2].start_time = chunks[1].ms
    /\ processed_segments[2].start_time > 0

-----------------------------------------------------------------------------
(* transcriber.py _format_timecode and ttsengine.py _time_to_seconds       *)
(* A time is a whole number of milliseconds; a timecode is the sequence of *)
(* its characters.                                                         *)

MaxTimeMs == 1500

DigitChars == <<"0", "1", "2", "3", "4", "5", "6", "7", "8", "9">>

RECURSIVE Digits(_)
\* the decimal digits of n >= 0, as str(n) gives them
Digits(n) ==
    IF n < 10 THEN <<DigitChars[n + 1]>>
    ELSE Append(Digits(n \div 10), DigitChars[(n % 10) + 1])

RECURSIVE Pad(_, _)
\* format spec 0<width>d: zeros on the left up to the width, never cut
Pad(digits, width) ==
    IF Len(digits) >= width THEN digits ELSE Pad(<<"0">> \o digits, width)

\* int((seconds % 1) * 1000) on a float: the product of a fraction of k
\* thousandths is k or just below k, so the truncation gives k or k - 1; a
\* whole number of seconds has the exact fraction 0
TruncatedMs(frac_ms) == IF frac_ms = 0 THEN {0} ELSE {frac_ms, frac_ms - 1}

MinutesOfTotal(t) == t \div 60000
\* int((seconds % 3600) // 60)
Minutes(t) == (t % 3600000) \div 60000

\* _format_timecode(t / 1000) with the given truncated millisecond field
FormatTimecode(t, milliseconds) ==
    LET hours == t \div 3600000
        minutes == Minutes(t)
        seconds == (t % 60000) \div 1000
    IN  Pad(Digits(hours), 2) \o <<":">> \o Pad(Digits(minutes), 2) \o <<":">>
        \o Pad(Digits(seconds), 2) \o <<",">> \o Pad(Digits(milliseconds), 3)

\* str.replace(old, new)
Replace(str, old, new) ==
    [i \in 1..Len(str) |-> IF str[i] = old THEN new ELSE str[i]]

RECURSIVE SplitFrom(_, _, _, _, _)
SplitFrom(str, sep, i, parts, piece) ==
    IF i > Len(str) THEN Append(parts, piece)
    ELSE IF str[i] = sep
        THEN SplitFrom(str, sep, i + 1, Append(parts, piece), <<>>)
        ELSE SplitFrom(str, sep, i + 1, parts, Append(piece, str[i]))

\* str.split(sep)
Split(str, sep) == SplitFrom(str, sep, 1, <<>>, <<>>)

RECURSIVE ToInt(_)
\* int() of a string of decimal digits
ToInt(digits) ==
    IF digits = <<>> THEN 0
    ELSE 10 * ToInt(SubSeq(digits, 1, Len(digits) - 1))
         + (CHOOSE d \in 0..9 : DigitChars[d + 1] = digits[Len(digits)])

\* _time_to_seconds(time_str), in milliseconds
TimeToSeconds(time_str) ==
    LET time_parts == Split(Replace(time_str, ",", ":"), ":")
        hours == ToInt(time_parts[1])
        minutes == ToInt(time_parts[2])
        seconds == ToInt(time_parts[3])
        milliseconds == ToInt(time_parts[4])
    IN  hours * 3600000 + minutes * 60000 + seconds * 1000 + milliseconds

\* every time up to MaxTimeMs, and times around the rollover of every field
TimeInputs ==
    0..MaxTimeMs \cup
    {h * 3600000 + m * 60000 + sec * 1000 + ms :
        h \in {0, 1, 10, 100}, m \in {0, 1, 59}, sec \in {0, 1, 59},
        ms \in {0, 1, 99, 999}}

InitTime ==
    /\ tPc = "format"
    /\ tIn \in TimeInputs
    /\ tCode = EmptyDict
    /\ tOut = 0
    /\ IdleNorm /\ IdleSeg /\ IdleGen /\ IdlePipe /\ IdleSync /\ IdleAudio
    /\ IdleRest

FormatCall ==
    /\ tPc = "format"
    /\ \E milliseconds \in TruncatedMs(tIn % 1000) :
           tCode' = FormatTimecode(tIn, milliseconds)
    /\ tPc' = "parse"
    /\ UNCHANGED <<tIn, tOut, normVars, segVars, genVars, pipeVars, syncVars,
                   audioVars, restVars>>

ParseCall ==
    /\ tPc = "parse"
    /\ tOut' = TimeToSeconds(tCode)
    /\ tPc' = "done"
    /\ UNCHANGED <<tIn, tCode, normVars, segVars, genVars, pipeVars, syncVars,
                   audioVars, restVars>>

NextTime == FormatCall \/ ParseCall

SpecTime == InitTime /\ [][NextTime]_vars

\* C20: for every time t >= 0 that is a whole number of milliseconds,
\* _time_to_seconds(_format_timecode(t)) equals t within 1 ms.
C20_RoundTripWithinOneMs ==
    tPc = "done" => Abs(tOut - tIn) <= 1

\* a time beyond one hour whose millisecond field was truncated one down
C20_Witness ==
    /\ tPc = "done"
    /\ tIn >= 3600000
    /\ tIn % 1000 # 0
    /\ tOut = tIn - 1

-----------------------------------------------------------------------------
(* video_processor.py merge_audio_segments_with_video: the combined track  *)
(* The track is the sequence of its 16-bit samples, one per millisecond.   *)
(* A clip is [exists, ms, amp]: whether the file at the segment's path     *)
(* exists, its length and the sample value it holds throughout.            *)

MaxTrackMs == 5
MaxMergeSegments == 3

\* audioop.add on 16-bit samples, which overlay mixes with: the sum is cut
\* to the sample range
Saturate(x) == Max(-32768, Min(32767, x))

\* int(float(segment['start_time']) * 1000); exact for the start times of
\* MergeWindows (the float product of 1.001 s gives 1000)
PositionMs(start_time) == start_time

\* base_audio.overlay(segment_audio, position): the result keeps the length
\* of the base, the part of the clip beyond its end is dropped
Overlay(base_audio, clip, position_ms) ==
    [i \in 1..Len(base_audio) |->
        IF position_ms < i /\ i <= position_ms + clip.ms
        THEN Saturate(base_audio[i] + clip.amp)
        ELSE base_audio[i]]

\* the segments of the list up to the first one whose file is missing
PresentUntilMissing(segments) ==
    LET gaps == {i \in 1..Len(segments) : ~ segments[i].clip.exists}
        first == IF gaps = {} THEN Len(segments) + 1
                 ELSE CHOOSE i \in gaps : \A j \in gaps : i <= j
    IN  SubSeq(segments, 1, first - 1)

\* if Path(segment['path']).exists(): the segments that are overlaid
Present(segments) == SelectSeq(segments, LAMBDA seg : seg.clip.exists)

RECURSIVE OverlayAll(_, _, _)
\* the loop of lines 62-66 from the i-th present segment on
OverlayAll(base_audio, present, i) ==
    IF i > Len(present) THEN base_audio
    ELSE OverlayAll(Overlay(base_audio, present[i].clip,
                            PositionMs(present[i].start_time)),
                    present, i + 1)

\* AudioSegment.silent(duration=int(video_duration * 1000)), then the loop
CombinedTrack(segments, video_ms) ==
    OverlayAll([i \in 1..video_ms |-> 0], Present(segments), 1)

\* windows that follow each other, and one that overlaps two of them
MergeWindows == {<<0, 1>>, <<1, 2>>, <<2, 3>>, <<1, 3>>}

\* a loud clip, the same clip inverted, and a missing file; the clip is
\* longer than every window, as speech that was not stretched is
ClipInputs ==
    {[exists |-> TRUE, ms |-> 4, amp |-> 20000],
     [exists |-> TRUE, ms |-> 4, amp |-> -20000],
     [exists |-> FALSE, ms |-> 0, amp |-> 0]}

\* one file per cue window
MergeSegmentInputs ==
    {[path |-> w[1] * 10 + w[2], start_time |-> w[1], end_time |-> w[2],
      clip |-> c] : w \in MergeWindows, c \in ClipInputs}

\* a path names one file
OneFilePerPath(segments) ==
    \A i, j \in 1..Len(segments) :
        segments[i].path = segments[j].path =>
            segments[i].clip = segments[j].clip

Reorderings(n) ==
    {f \in [1..n -> 1..n] : \A i, j \in 1..n : f[i] = f[j] => i = j}

InitMerge ==
    /\ mPc = "call"
    /\ mVideoMs \in {3, MaxTrackMs}
    /\ mSegments \in {l \in SeqsUpTo(MergeSegmentInputs, MaxMergeSegments) :
                         OneFilePerPath(l)}
    /\ mTrack = <<>>
    /\ mPermTrack = <<>>
    /\ mOut = "none"
    /\ IdleNorm /\ IdleSeg /\ IdleGen /\ IdlePipe
    /\ IdleSync /\ IdleAudio /\ IdleTime /\ IdleSrt

\* merge_audio_segments_with_video on the list, and the same call on a
\* permutation of the list; the video may be missing and ffmpeg may fail
MergeCall ==
    /\ mPc = "call"
    /\ \E outcome \in {"no_video", "ffmpeg_failed", "returned"},
          f \in Reorderings(Len(mSegments)) :
          /\ mOut' = outcome
          /\ IF outcome = "no_video"
             THEN UNCHANGED <<mTrack, mPermTrack>>
             ELSE /\ mTrack' = CombinedTrack(mSegments, mVideoMs)
                  /\ mPermTrack' =
                        CombinedTrack([i \in 1..Len(mSegments) |-> mSegments[f[i]]],
                                      mVideoMs)
    /\ mPc' = "done"
    /\ UNCHANGED <<mVideoMs, mSegments, normVars, segVars, genVars, pipeVars,
                   syncVars, audioVars, timeVars, srtVars>>

NextMerge == MergeCall

SpecMerge == InitMerge /\ [][NextMerge]_vars

\* the windows [start_time, end_time] of the list do not overlap pairwise
WindowsDisjoint(segments) ==
    \A i, j \in 1..Len(segments) :
        i # j => ~ Overlap(segments[i], segments[j])

\* C21: for any list whose windows do not overlap, every permutation of the
\* list yields the same combined track at every millisecond.
C21_OrderIndependent ==
    (mPc = "done" /\ mOut = "returned" /\ WindowsDisjoint(mSegments)) =>
        mTrack = mPermTrack

\* the segments with a file whose clip covers millisecond t of the track
Covering(segments, t) ==
    {i \in 1..Len(segments) :
        /\ segments[i].clip.exists
        /\ segments[i].start_time < t
        /\ t <= segments[i].start_time + segments[i].clip.ms}

RECURSIVE SumAmp(_, _)
SumAmp(segments, indices) ==
    IF indices = {} THEN 0
    ELSE LET i == CHOOSE k \in indices : TRUE
         IN  segments[i].clip.amp + SumAmp(segments, indices \ {i})

\* C22: a segment whose file is missing is skipped without raising, and every
\* other segment is still overlaid at its own start_time*1000 ms offset on a
\* track as long as the video: the call returns unless the video or ffmpeg
\* fails, a millisecond no clip covers is silent, and a millisecond covered by
\* clips of one sign holds their sum, cut to the sample range.
C22_MissingFileSkipped ==
    (mPc = "done" /\ mOut # "no_video") =>
        /\ mOut \in {"returned", "ffmpeg_failed"}
        /\ Len(mTrack) = mVideoMs
        /\ \A t \in 1..mVideoMs :
              LET covering == Covering(mSegments, t) IN
              /\ covering = {} => mTrack[t] = 0
              /\ (\A i \in covering : mSegments[i].clip.amp > 0) =>
                     mTrack[t] = Min(32767, SumAmp(mSegments, covering))
              /\ (\A i \in covering : mSegments[i].clip.amp < 0) =>
                     mTrack[t] = Max(-32768, SumAmp(mSegments, covering))

\* a segment without a file stands before one with a file, which is heard
\* alone at its offset
C22_Witness ==
    /\ mPc = "done"
    /\ mOut = "returned"
    /\ \E i, j \in 1..Len(mSegments) :
          /\ i < j
          /\ ~ mSegments[i].clip.exists
          /\ mSegments[j].clip.exists
          /\ mSegments[j].start_time < mVideoMs
          /\ mTrack[mSegments[j].start_time + 1] = mSegments[j].clip.amp

-----------------------------------------------------------------------------
(* Output paths of process_movie                                           *)

\* C23: within one process_movie run no two cues write their audio to the
\* same output path: the paths of the returned segment list are pairwise
\* distinct.
C23_PathsDistinct ==
    \A i, j \in 1..Len(audio_segments) :
        i # j => audio_segments[i].path # audio_segments[j].path

-----------------------------------------------------------------------------
(* ttsengine.py read_srt                                                   *)
(* The file content, a block and a line are sequences of characters.       *)

MaxBlocks == 2

NewLine == <<"\n">>
BlankLine == <<"\n", "\n">>
Arrow == <<" ", "-", "-", ">", " ">>

IsDigit(c) == \E d \in DOMAIN DigitChars : DigitChars[d] = c

\* int(str) does not raise; signs and surrounding blanks, which int() also
\* accepts, do not occur in the inputs
IsInt(str) == str # <<>> /\ \A i \in 1..Len(str) : IsDigit(str[i])

RECURSIVE SplitOnFrom(_, _, _, _, _)
SplitOnFrom(str, sep, i, parts, piece) ==
    IF i > Len(str) THEN Append(parts, piece)
    ELSE IF i + Len(sep) - 1 <= Len(str) /\ SubSeq(str, i, i + Len(sep) - 1) = sep
        THEN SplitOnFrom(str, sep, i + Len(sep), Append(parts, piece), <<>>)
        ELSE SplitOnFrom(str, sep, i + 1, parts, Append(piece, str[i]))

\* str.split(sep) for a separator of several characters
SplitOn(str, sep) == SplitOnFrom(str, sep, 1, <<>>, <<>>)

IsSpace(c) == c \in {" ", "\n"}

RECURSIVE Strip(_)
\* str.strip()
Strip(str) ==
    IF str = <<>> THEN str
    ELSE IF IsSpace(str[1]) THEN Strip(Tail(str))
    ELSE IF IsSpace(str[Len(str)]) THEN Strip(SubSeq(str, 1, Len(str) - 1))
    ELSE str

RECURSIVE JoinLines(_, _)
\* '\n'.join(lines[i - 1:])
JoinLines(lines, i) ==
    IF i > Len(lines) THEN <<>>
    ELSE IF i = Len(lines) THEN lines[i]
    ELSE lines[i] \o NewLine \o JoinLines(lines, i + 1)

\* _time_to_seconds(time_str) does not raise: four fields, all integers
TimecodeParses(time_str) ==
    LET time_parts == Split(Replace(time_str, ",", ":"), ":")
    IN  Len(time_parts) >= 4 /\ \A k \in 1..4 : IsInt(time_parts[k])

\* lines 63-79 for one block: "short" is a block of fewer than three lines,
\* "warned" one whose parsing raised inside the try
ParseBlock(block) ==
    LET lines == Split(block, "\n") IN
    IF Len(lines) < 3 THEN [kind |-> "short"]
    ELSE LET time_parts == SplitOn(lines[2], Arrow) IN
         IF \/ ~ TimecodeParses(time_parts[1])
            \/ Len(time_parts) < 2
            \/ ~ TimecodeParses(time_parts[2])
            \/ ~ IsInt(lines[1])
         THEN [kind |-> "warned"]
         ELSE [kind |-> "cue",
               sub |-> Cue(ToInt(lines[1]),
                           <<TimeToSeconds(time_parts[1]),
                             TimeToSeconds(time_parts[2])>>,
                           JoinLines(lines, 3))]

\* BlockStep for a loop without the try: a block that fails ends the call
BlockStepAborting(acc, position, parsed) ==
    IF acc.aborted THEN acc
    ELSE IF parsed.kind = "cue"
        THEN [acc EXCEPT !.parsed_subs = Append(@, parsed.sub)]
    ELSE IF parsed.kind = "warned"
        THEN [acc EXCEPT !.aborted = TRUE]
    ELSE acc

\* one iteration of the loop of lines 62-79
BlockStep(acc, position, parsed) ==
    IF parsed.kind = "cue"
        THEN [acc EXCEPT !.parsed_subs = Append(@, parsed.sub)]
    ELSE IF parsed.kind = "warned"
        THEN [acc EXCEPT !.warned = Append(@, position)]
    ELSE acc

RECURSIVE ReadBlocks(_, _, _)
ReadBlocks(blocks, i, acc) ==
    IF i > Len(blocks) THEN acc
    ELSE ReadBlocks(blocks, i + 1, BlockStep(acc, i, ParseBlock(blocks[i])))

\* read_srt on the content of a readable file
ReadSrt(content) ==
    ReadBlocks(SplitOn(Strip(content), BlankLine), 1,
               [parsed_subs |-> <<>>, warned |-> <<>>, aborted |-> FALSE])

\* a timecode as the transcriber writes it
Timecode(t) == FormatTimecode(t, t % 1000)

TimeLine(start, end) == Timecode(start) \o Arrow \o Timecode(end)

SrtBlock(index_line, time_line, text) ==
    index_line \o NewLine \o time_line \o NewLine \o text

\* blocks of a subtitle file: two plain ones (the second with two lines of
\* text), one that repeats an index, one of zero and one of negative length,
\* and malformed ones: index not a number, no arrow, no millisecond field,
\* a letter in a time field, no text line
SrtBlockInputs ==
    {SrtBlock(Digits(1), TimeLine(1000, 2500), <<"a">>),
     SrtBlock(Digits(2), TimeLine(2500, 4000), <<"a", "\n", "a">>),
     SrtBlock(Digits(1), TimeLine(2500, 4000), <<"a">>),
     SrtBlock(Digits(3), TimeLine(2500, 2500), <<"a">>),
     SrtBlock(Digits(3), TimeLine(2500, 1000), <<"a">>),
     SrtBlock(<<"a">>, TimeLine(1000, 2500), <<"a">>),
     SrtBlock(Digits(2), Timecode(1000), <<"a">>),
     SrtBlock(Digits(2), SubSeq(Timecode(1000), 1, 8) \o Arrow \o Timecode(2500),
              <<"a">>),
     SrtBlock(Digits(2), <<"0", "a">> \o SubSeq(Timecode(1000), 3, 12)
                         \o Arrow \o Timecode(2500), <<"a">>),
     Digits(2) \o NewLine \o TimeLine(1000, 2500)}

RECURSIVE JoinBlocks(_, _, _)
\* the blocks from the i-th on, each followed by the separator
JoinBlocks(blocks, sep, i) ==
    IF i > Len(blocks) THEN <<>>
    ELSE blocks[i] \o sep \o JoinBlocks(blocks, sep, i + 1)

\* files whose blocks end with one empty line, as the transcriber and the
\* translator write them, or with two
SrtContents ==
    {JoinBlocks(b, sep, 1) :
        b \in SeqsUpTo(SrtBlockInputs, MaxBlocks),
        sep \in {BlankLine, BlankLine \o NewLine}}

InitSrt ==
    /\ rPc = "call"
    /\ rContent \in SrtContents
    /\ rSubs = <<>>
    /\ rWarned = <<>>
    /\ IdleNorm /\ IdleSeg /\ IdleGen /\ IdlePipe
    /\ IdleSync /\ IdleAudio /\ IdleTime /\ IdleMerge

\* read_srt: open() may raise; otherwise every block is handled
ReadSrtCall ==
    /\ rPc = "call"
    /\ \E readable \in BOOLEAN :
          IF readable
          THEN LET res == ReadSrt(rContent) IN
               /\ rSubs' = res.parsed_subs
               /\ rWarned' = res.warned
               /\ rPc' = IF res.aborted THEN "aborted" ELSE "returned"
          ELSE /\ rPc' = "unreadable"
               /\ UNCHANGED <<rSubs, rWarned>>
    /\ UNCHANGED <<rContent, normVars, segVars, genVars, pipeVars,
                   syncVars, audioVars, timeVars, mergeVars>>

NextSrt == ReadSrtCall

SpecSrt == InitSrt /\ [][NextSrt]_vars

\* C24: no cue whose end_time is not after its start_time is returned by
\* read_srt as a normal cue; such a cue is reported when the file is parsed.
C24_NoEmptyWindowReturned ==
    rPc = "returned" =>
        \A k \in 1..Len(rSubs) : rSubs[k].end_time > rSubs[k].start_time

\* a block with an index line, a time line of two timecodes joined by the
\* arrow, and at least one further line
WellFormedBlock(block) ==
    LET lines == Split(block, "\n") IN
    /\ Len(lines) >= 3
    /\ IsInt(lines[1])
    /\ LET codes == SplitOn(lines[2], Arrow) IN
       /\ Len(codes) >= 2
       /\ TimecodeParses(codes[1])
       /\ TimecodeParses(codes[2])

\* C25: read_srt never aborts on a malformed block: it skips that block and
\* returns every well-formed block of the file, in file order.
C25_MalformedBlocksSkipped ==
    /\ rPc # "aborted"
    /\ rPc = "returned" =>
          LET good == SelectSeq(SplitOn(Strip(rContent), BlankLine),
                                WellFormedBlock)
          IN  /\ Len(rSubs) = Len(good)
              /\ \A k \in 1..Len(good) :
                    LET lines == Split(good[k], "\n") IN
                    /\ rSubs[k].index = ToInt(lines[1])
                    /\ rSubs[k].text = JoinLines(lines, 3)
                    /\ rSubs[k].start_time =
                          TimeToSeconds(SplitOn(lines[2], Arrow)[1])

\* a malformed block stands before a cue, which is returned
C25_Witness ==
    /\ rPc = "returned"
    /\ rWarned = <<1>>
    /\ Len(rSubs) = 1
    /\ rSubs[1].index = 2 /\ rSubs[1].start_time = 2500

-----------------------------------------------------------------------------
(* Properties of the gender policy and of the range repair                 *)

\* C26: gender is re-derived from pitch (above 165 Hz female, otherwise male)
\* and gender_confidence set to 0.8 exactly when the matched segment's
\* gender_confidence is below 0.7; at or above 0.7 the detected gender and
\* confidence are kept.
C26_RederivedIffBelowThreshold ==
    (/\ nPc = "matched"
     /\ nMeta.present
     /\ nMeta.segs # <<>>
     /\ \A i \in 1..Len(nMeta.segs) : WellFormedSegment(nMeta.segs[i]))
    => LET detected == nMeta.segs[FirstNearest(nCue, nMeta.segs)].speaker
           confidence == Get(detected, "gender_confidence", 0)
       IN  IF confidence < 70
           THEN /\ nOut.speaker.gender =
                      (IF Get(detected, "pitch", 0) > 165 THEN "female" ELSE "male")
                /\ nOut.speaker.gender_confidence = 80
           ELSE /\ Get(nOut.speaker, "gender", "none") = Get(detected, "gender", "none")
                /\ Get(nOut.speaker, "gender_confidence", 0) = confidence

\* the default of a missing field, as _normalize_speaker_params reads it
RawPitch == Get(nSpeakerIn, "pitch", 0)
RawEnergy == Get(nSpeakerIn, "energy", 1000)
RawRate == Get(nSpeakerIn, "speech_rate", 100)
DefaultPitch == IF Get(nSpeakerIn, "gender", "none") = "female" THEN 210 ELSE 120

\* C27 as stated: every field whose input is outside its valid range (pitch
\* [50,300], energy [0.5,2.0], speech_rate [0.8,1.5]) is replaced by the
\* profile default rather than clamped.
C27_OutOfRangeGetsDefault ==
    nPc = "normalized" =>
        /\ (RawPitch < 50 \/ RawPitch > 300) => nOut.pitch = DefaultPitch
        /\ (RawEnergy < 500 \/ RawEnergy > 2000) => nOut.energy = 1000
        /\ (RawRate < 80 \/ RawRate > 150) => nOut.speech_rate = 100

\* C27 amended: a field beyond its sanity bound (pitch above 300, energy
\* below 0.01 or above 10, speech_rate above 100) is replaced by the profile
\* default; every other value outside the valid range is clamped to the
\* nearest bound of the range, and a value inside it is kept.
C27_ResetBeyondSanityElseClamp ==
    nPc = "normalized" =>
        /\ nOut.pitch = (IF RawPitch > 300 THEN DefaultPitch
                         ELSE IF RawPitch < 50 THEN 50 ELSE RawPitch)
        /\ nOut.energy = (IF RawEnergy < 10 \/ RawEnergy > 10000 THEN 1000
                          ELSE IF RawEnergy < 500 THEN 500
                          ELSE IF RawEnergy > 2000 THEN 2000 ELSE RawEnergy)
        /\ nOut.speech_rate = (IF RawRate > 10000 THEN 100
                               ELSE IF RawRate < 80 THEN 80
                               ELSE IF RawRate > 150 THEN 150 ELSE RawRate)

\* one field reset to its default and two clamped
C27_Witness ==
    /\ nPc = "normalized"
    /\ RawPitch = 301 /\ nOut.pitch = 120
    /\ RawEnergy = 2001 /\ nOut.energy = 2000
    /\ RawRate = 79 /\ nOut.speech_rate = 80

-----------------------------------------------------------------------------
(* Properties of the whole pipeline                                        *)

\* C28: for any two cues with non-overlapping windows (A ends no later than B
\* starts) the audio the compositor places does not overlap:
\* start_A*1000 + length of A's clip file <= start_B*1000.
C28_PlacedClipsDisjoint ==
    Len(overlaid) = Len(audio_segments) =>
        \A i, j \in 1..Len(overlaid) :
            (i # j /\ audio_segments[i].end_time <= audio_segments[j].start_time)
            => overlaid[i].position_ms + overlaid[i].length_ms
                   <= overlaid[j].position_ms

\* C29: after process_audio the recorded transcript segments are in
\* increasing time order and pairwise non-overlapping: each has
\* end_time = start_time + duration with duration >= 0.5 s, and each
\* end_time is <= the start_time of the next recorded segment.
C29_SegmentsOrderedDisjoint ==
    aPc = "done" =>
        \A k \in 1..Len(processed_segments) :
            LET s == processed_segments[k] IN
            /\ s.end_time = s.start_time + s.duration
            /\ s.duration >= 500
            /\ k < Len(processed_segments) =>
                   s.end_time <= processed_segments[k + 1].start_time

\* three segments were recorded one after the other
C29_Witness ==
    /\ aPc = "done"
    /\ Len(processed_segments) = 3
    /\ processed_segments[1].end_time <= processed_segments[2].start_time
    /\ processed_segments[2].end_time <= processed_segments[3].start_time
    /\ processed_segments[3].start_time > processed_segments[1].start_time

\* C30: the transcript and the session metadata that the translation and
\* synthesis stages of dub_video.main consume are the ones the transcription
\* stage of the same run wrote, also when the output directory already holds
\* session_* directories of earlier runs.
C30_SessionOfThisRun ==
    pc \in {"transcribed", "translated", "synth", "burn", "merge", "done"} =>
        session_dir = "session_new"

=============================================================================
